---- MODULE Spec2Model ----
(***************************************************************************)
(* Model of tasks/changelog.py: the two invoke tasks `new` (create an      *)
(* empty fragment in .changelog/) and `done` (compile every fragment of    *)
(* .changelog/ into a note record under releasenotes/notes/ and delete it).*)
(*                                                                         *)
(* Text is modelled as a sequence of one-character strings, so that        *)
(* startswith, slicing, strip and line iteration are computed as Python    *)
(* computes them.  A directory is a function from file name to content.    *)
(***************************************************************************)
EXTENDS Integers, Sequences, FiniteSets, TLC

VARIABLES
    dirExists,  \* whether .changelog/ exists
    staging,    \* .changelog/ : file name -> text
    out,        \* releasenotes/notes/ : file name -> [rec, complete]
    pc,         \* per `done` run: position in the task
    todo,       \* per run: names of the listing not yet iterated
    listed,     \* per run: the names os.listdir returned
    release_note, \* per run: the fragment being processed
    text,       \* per run: the text read from the current fragment
    sections,   \* per run: the dict `sections`
    convCalls,  \* per run: converter calls made for the current fragment
    log,        \* per run: fragment -> what the run dumped for it
    failedAt,   \* per run: the operation that raised, "" when none
    issued,     \* uuids uuid4() has returned so far
    calls       \* the `new` invocations so far: inputs, effect and outcome

vars == <<dirExists, staging, out, pc, todo, listed, release_note, text, sections,
          convCalls, log, failedAt, issued, calls>>

doneVars == <<out, pc, todo, listed, release_note, text, sections, convCalls, log, failedAt>>
newVars  == <<issued, calls>>

----------------------------------------------------------------------------
(* Bounds *)

\* total number of text pieces initially spread over the staged fragments
MaxPieces == 3
\* number of `new` invocations explored
MaxNew == 3

(* Program constants *)

\* len(uuid.uuid4().hex)
HexLen == 32
\* uuid4().hex[16:] starts at this 0-based index
SuffixFrom == 16
\* release_note[:-3] drops this many trailing characters
ExtCut == 3

----------------------------------------------------------------------------
(* Generic helpers on dicts (functions) and text *)

EmptyDict == [x \in {} |-> <<>>]

Put(f, k, v) == [x \in (DOMAIN f) \cup {k} |-> IF x = k THEN v ELSE f[x]]

Del(f, k) == [x \in (DOMAIN f) \ {k} |-> f[x]]

Rep(c, n) == [i \in 1..n |-> c]

Whitespace == {" ", "\n", "\t"}

RECURSIVE LStrip(_)
LStrip(s) ==
    IF s # <<>> /\ Head(s) \in Whitespace THEN LStrip(Tail(s)) ELSE s

RECURSIVE RStrip(_)
RStrip(s) ==
    IF s # <<>> /\ s[Len(s)] \in Whitespace
    THEN RStrip(SubSeq(s, 1, Len(s) - 1))
    ELSE s

\* str.strip()
Strip(s) == RStrip(LStrip(s))

\* line.startswith("# ")
IsHeading(line) == Len(line) >= 2 /\ line[1] = "#" /\ line[2] = " "

\* line[2:].strip()
HeadingName(line) == Strip(SubSeq(line, 3, Len(line)))

\* `for line in release_note_file`: the lines of the text, terminators kept
RECURSIVE SplitFrom(_, _, _)
SplitFrom(t, acc, i) ==
    IF i > Len(t)
    THEN IF acc = <<>> THEN <<>> ELSE <<acc>>
    ELSE IF t[i] = "\n"
         THEN <<Append(acc, t[i])>> \o SplitFrom(t, <<>>, i + 1)
         ELSE SplitFrom(t, Append(acc, t[i]), i + 1)

SplitLines(t) == SplitFrom(t, <<>>, 1)

----------------------------------------------------------------------------
(* The section parser of `done` (lines 30-38) *)

NoSection == [some |-> FALSE, name |-> <<>>]

ParseInit == [sections |-> EmptyDict, current_section |-> NoSection]

\* a plausible slip: the heading name is taken untrimmed
ParseStepUntrimmed(st, line) ==
    IF IsHeading(line)
    THEN LET n == SubSeq(line, 3, Len(line))
         IN  [sections |-> Put(st.sections, n, <<>>),
              current_section  |-> [some |-> TRUE, name |-> n]]
    ELSE IF st.current_section.some
         THEN [st EXCEPT !.sections[st.current_section.name] = @ \o line]
         ELSE st

\* a plausible slip: text before the first heading is kept under the name ""
ParseStepKeepLeading(st, line) ==
    IF IsHeading(line)
    THEN LET n == HeadingName(line)
         IN  [sections |-> Put(st.sections, n, <<>>),
              current_section  |-> [some |-> TRUE, name |-> n]]
    ELSE IF st.current_section.some
         THEN [st EXCEPT !.sections[st.current_section.name] = @ \o line]
         ELSE [sections |-> Put(st.sections, <<>>, line),
               current_section  |-> [some |-> TRUE, name |-> <<>>]]

\* one iteration of the loop over the lines
ParseStep(st, line) ==
    IF IsHeading(line)
    THEN LET n == HeadingName(line)
         IN  [sections |-> Put(st.sections, n, <<>>),
              current_section  |-> [some |-> TRUE, name |-> n]]
    ELSE IF st.current_section.some
         THEN [st EXCEPT !.sections[st.current_section.name] = @ \o line]
         ELSE st

RECURSIVE ParseLines(_, _)
ParseLines(st, lines) ==
    IF lines = <<>> THEN st
    ELSE ParseLines(ParseStep(st, Head(lines)), Tail(lines))

\* the dict `sections` after the loop over the file
Parse(t) == ParseLines(ParseInit, SplitLines(t)).sections

\* pypandoc.convert_text(text, to='rst', format='markdown'): an external pure
\* function of the text; its result is kept distinct from its argument
Convert(t) == <<"rst", t>>

\* the dict after `sections[section] = [convert_text(sections[section])]`
Converted(secs) == [k \in DOMAIN secs |-> <<Convert(secs[k])>>]

YamlExt == <<".", "y", "a", "m", "l">>

\* "{}.yaml".format(release_note[:-3])
OutName(f) ==
    (IF Len(f) > ExtCut THEN SubSeq(f, 1, Len(f) - ExtCut) ELSE <<>>) \o YamlExt

----------------------------------------------------------------------------
(* The task `done` (lines 27-44), one action per step of a run r *)

Runs == {1, 2}

Fail(r, what) ==
    /\ pc' = [pc EXCEPT ![r] = "failed"]
    /\ failedAt' = [failedAt EXCEPT ![r] = what]

\* os.listdir(".changelog")
ListDir(r) ==
    /\ pc[r] = "start"
    /\ dirExists
    /\ listed' = [listed EXCEPT ![r] = DOMAIN staging]
    /\ todo' = [todo EXCEPT ![r] = DOMAIN staging]
    /\ pc' = [pc EXCEPT ![r] = "loop"]
    /\ UNCHANGED <<dirExists, staging, out, release_note, text, sections, convCalls,
                   log, failedAt, newVars>>

\* os.listdir raises when .changelog/ does not exist
ListDirFail(r) ==
    /\ pc[r] = "start"
    /\ ~dirExists
    /\ Fail(r, "listdir")
    /\ UNCHANGED <<dirExists, staging, out, todo, listed, release_note, text, sections,
                   convCalls, log, newVars>>

\* the next release_note of the listing is opened, read and parsed
ReadFragment(r) ==
    /\ pc[r] = "loop"
    /\ \E f \in todo[r] :
        /\ f \in DOMAIN staging
        /\ release_note' = [release_note EXCEPT ![r] = f]
        /\ todo' = [todo EXCEPT ![r] = @ \ {f}]
        /\ text' = [text EXCEPT ![r] = staging[f]]
        /\ sections' = [sections EXCEPT ![r] = Parse(staging[f])]
    /\ convCalls' = [convCalls EXCEPT ![r] = 0]
    /\ pc' = [pc EXCEPT ![r] = "convert"]
    /\ UNCHANGED <<dirExists, staging, out, listed, log, failedAt, newVars>>

\* open() or the read raises (file gone, not readable, not a regular file)
ReadFail(r) ==
    /\ pc[r] = "loop"
    /\ \E f \in todo[r] :
        /\ release_note' = [release_note EXCEPT ![r] = f]
        /\ todo' = [todo EXCEPT ![r] = @ \ {f}]
    /\ Fail(r, "read")
    /\ UNCHANGED <<dirExists, staging, out, listed, text, sections, convCalls,
                   log, newVars>>

\* the loop over the sections, one converter call per key
ConvertSections(r) ==
    /\ pc[r] = "convert"
    /\ sections' = [sections EXCEPT ![r] = Converted(@)]
    /\ convCalls' = [convCalls EXCEPT ![r] = Cardinality(DOMAIN sections[r])]
    /\ pc' = [pc EXCEPT ![r] = "open"]
    /\ UNCHANGED <<dirExists, staging, out, todo, listed, release_note, text, log,
                   failedAt, newVars>>

\* a converter call raises (there is one only if there is a section)
ConvertFail(r) ==
    /\ pc[r] = "convert"
    /\ DOMAIN sections[r] # {}
    /\ Fail(r, "convert")
    /\ UNCHANGED <<dirExists, staging, out, todo, listed, release_note, text, sections,
                   convCalls, log, newVars>>

\* open(".../{}.yaml", 'w') creates or truncates the output file
OpenOut(r) ==
    /\ pc[r] = "open"
    /\ out' = Put(out, OutName(release_note[r]), [rec |-> EmptyDict, complete |-> FALSE])
    /\ pc' = [pc EXCEPT ![r] = "dump"]
    /\ UNCHANGED <<dirExists, staging, todo, listed, release_note, text, sections,
                   convCalls, log, failedAt, newVars>>

\* the open of the output file raises; nothing is written
OpenOutFail(r) ==
    /\ pc[r] = "open"
    /\ Fail(r, "write")
    /\ UNCHANGED <<dirExists, staging, out, todo, listed, release_note, text, sections,
                   convCalls, log, newVars>>

\* yaml.safe_dump completes and the `with` block closes the file
Dump(r) ==
    /\ pc[r] = "dump"
    /\ out' = Put(out, OutName(release_note[r]), [rec |-> sections[r], complete |-> TRUE])
    /\ log' = [log EXCEPT ![r] = Put(@, release_note[r],
                  [text |-> text[r], rec |-> sections[r], calls |-> convCalls[r],
                   file |-> OutName(release_note[r])])]
    /\ pc' = [pc EXCEPT ![r] = "remove"]
    /\ UNCHANGED <<dirExists, staging, todo, listed, release_note, text, sections,
                   convCalls, failedAt, newVars>>

\* yaml.safe_dump raises; the truncated output file stays behind
DumpFail(r) ==
    /\ pc[r] = "dump"
    /\ Fail(r, "write")
    /\ UNCHANGED <<dirExists, staging, out, todo, listed, release_note, text, sections,
                   convCalls, log, newVars>>

\* a plausible slip: the fragment is not removed
RemoveKeeps(r) ==
    /\ pc[r] = "remove"
    /\ release_note[r] \in DOMAIN staging
    /\ pc' = [pc EXCEPT ![r] = "loop"]
    /\ UNCHANGED <<dirExists, staging, out, todo, listed, release_note, text, sections,
                   convCalls, log, failedAt, newVars>>

\* os.remove(".changelog/{}".format(release_note))
Remove(r) ==
    /\ pc[r] = "remove"
    /\ release_note[r] \in DOMAIN staging
    /\ staging' = Del(staging, release_note[r])
    /\ pc' = [pc EXCEPT ![r] = "loop"]
    /\ UNCHANGED <<dirExists, out, todo, listed, release_note, text, sections,
                   convCalls, log, failedAt, newVars>>

\* a plausible slip: the removal raises although the fragment is there
RemoveFailAlways(r) ==
    /\ pc[r] = "remove"
    /\ Fail(r, "remove")
    /\ UNCHANGED <<dirExists, staging, out, todo, listed, release_note, text, sections,
                   convCalls, log, newVars>>

\* os.remove raises: the fragment is no longer there
RemoveFail(r) ==
    /\ pc[r] = "remove"
    /\ release_note[r] \notin DOMAIN staging
    /\ Fail(r, "remove")
    /\ UNCHANGED <<dirExists, staging, out, todo, listed, release_note, text, sections,
                   convCalls, log, newVars>>

\* the listing is exhausted: the task returns
Finish(r) ==
    /\ pc[r] = "loop"
    /\ todo[r] = {}
    /\ pc' = [pc EXCEPT ![r] = "done"]
    /\ UNCHANGED <<dirExists, staging, out, todo, listed, release_note, text, sections,
                   convCalls, log, failedAt, newVars>>

----------------------------------------------------------------------------
(* Initial states of a `done` run: what .changelog/ may hold *)

\* file names found in .changelog/: "a.md", "a.rs", "c.txt"
Names == { <<"a", ".", "m", "d">>,
           <<"a", ".", "r", "s">>,
           <<"c", ".", "t", "x", "t">> }

\* pieces of text a fragment is made of:
\* "# A\n", "# B\n", "#  A \n", "x\n", "y" (no terminator), "#z\n"
Pieces == { <<"#", " ", "A", "\n">>,
            <<"#", " ", "B", "\n">>,
            <<"#", " ", " ", "A", " ", "\n">>,
            <<"x", "\n">>,
            <<"y">>,
            <<"#", "z", "\n">> }

\* the text of file f when the pieces of script s are written in order
RECURSIVE ContentOf(_, _)
ContentOf(s, f) ==
    IF s = <<>> THEN <<>>
    ELSE (IF Head(s)[1] = f THEN Head(s)[2] ELSE <<>>) \o ContentOf(Tail(s), f)

InitStaging ==
    \E n \in 0..MaxPieces :
      \E s \in [1..n -> Names \X Pieces] :
        \E extra \in SUBSET Names :
          /\ staging = [f \in {s[i][1] : i \in 1..n} \cup extra |-> ContentOf(s, f)]
          /\ dirExists \in (IF DOMAIN staging = {} THEN BOOLEAN ELSE {TRUE})

InitRuns(active) ==
    /\ out = EmptyDict
    /\ pc = [r \in Runs |-> IF r \in active THEN "start" ELSE "idle"]
    /\ todo = [r \in Runs |-> {}]
    /\ listed = [r \in Runs |-> {}]
    /\ release_note = [r \in Runs |-> <<>>]
    /\ text = [r \in Runs |-> <<>>]
    /\ sections = [r \in Runs |-> EmptyDict]
    /\ convCalls = [r \in Runs |-> 0]
    /\ log = [r \in Runs |-> EmptyDict]
    /\ failedAt = [r \in Runs |-> ""]

InitNoNew ==
    /\ issued = {}
    /\ calls = <<>>

\* one `done` invocation on an arbitrary staging directory
Init == InitStaging /\ InitRuns({1}) /\ InitNoNew

Step(r) ==
    \/ ListDir(r)
    \/ ListDirFail(r)
    \/ ReadFragment(r)
    \/ ReadFail(r)
    \/ ConvertSections(r)
    \/ ConvertFail(r)
    \/ OpenOut(r)
    \/ OpenOutFail(r)
    \/ Dump(r)
    \/ DumpFail(r)
    \/ Remove(r)
    \/ Finish(r)

Next == \E r \in Runs : Step(r)

Spec == Init /\ [][Next]_vars

----------------------------------------------------------------------------
(* Vocabulary of the statements about `done`: a fragment's sections read   *)
(* off its lines directly, without the parser's loop.                      *)

HeadingIdx(L) == {i \in 1..Len(L) : IsHeading(L[i])}

\* index of the first heading after line i, or one past the last line
NextHeading(L, i) ==
    LET later == {h \in HeadingIdx(L) : h > i}
    IN  IF later = {} THEN Len(L) + 1
        ELSE CHOOSE h \in later : \A g \in later : h <= g

RECURSIVE ConcatRange(_, _, _)
ConcatRange(L, a, b) ==
    IF a > b THEN <<>> ELSE L[a] \o ConcatRange(L, a + 1, b)

\* the lines between heading i and the next heading or the end of the file
BlockBody(L, i) == ConcatRange(L, i + 1, NextHeading(L, i) - 1)

HeadingNames(L) == {HeadingName(L[i]) : i \in HeadingIdx(L)}

DistinctHeadings(L) ==
    \A i, j \in HeadingIdx(L) : i # j => HeadingName(L[i]) # HeadingName(L[j])

\* the blocks of every occurrence of heading k from line i on, in file order
RECURSIVE MergedBody(_, _, _)
MergedBody(L, k, i) ==
    IF i > Len(L) THEN <<>>
    ELSE (IF IsHeading(L[i]) /\ HeadingName(L[i]) = k THEN BlockBody(L, i) ELSE <<>>)
         \o MergedBody(L, k, i + 1)

\* last component of a file name before its extension
RECURSIVE BaseName(_)
BaseName(f) ==
    IF f = <<>> THEN <<>>
    ELSE IF f[Len(f)] = "." THEN SubSeq(f, 1, Len(f) - 1)
    ELSE IF "." \notin {f[i] : i \in 1..Len(f)} THEN f
    ELSE BaseName(SubSeq(f, 1, Len(f) - 1))

\* fragments the run r has dumped a record for
Dumped(r) == DOMAIN log[r]

\* fragments of the listing that are gone from .changelog/
Removed(r) == listed[r] \ DOMAIN staging

----------------------------------------------------------------------------
(* Statements about one `done` run (specification Spec) *)

\* C1: a repeated heading yields one key whose text is the concatenation, in
\* file order, of the blocks of every occurrence of the heading
RepeatedHeadingsMerge ==
    \A f \in Dumped(1) :
        LET L == SplitLines(log[1][f].text)
        IN  /\ DOMAIN log[1][f].rec = HeadingNames(L)
            /\ \A k \in HeadingNames(L) :
                   log[1][f].rec[k] = <<Convert(MergedBody(L, k, 1))>>

\* C2: a fragment removed from .changelog/ has its complete note record in
\* releasenotes/notes/, and a fragment whose read, conversion or write failed
\* is still in .changelog/
RemovedHasRecord ==
    /\ \A f \in Removed(1) :
           /\ f \in Dumped(1)
           /\ OutName(f) \in DOMAIN out
           /\ out[OutName(f)] = [rec |-> log[1][f].rec, complete |-> TRUE]
    /\ (pc[1] = "failed" /\ failedAt[1] \in {"read", "convert", "write"})
           => release_note[1] \in DOMAIN staging

\* C3 as claimed: a failed run has written no record and deleted no fragment
AllOrNothing ==
    pc[1] = "failed" => (out = EmptyDict /\ DOMAIN staging = listed[1])

\* C3 amended: a failed run stops at the failing fragment; the fragments it
\* processed before have had their record dumped and are deleted, the failing
\* fragment and the fragments not yet reached are still in .changelog/
AbortKeepsEarlierWork ==
    (pc[1] = "failed" /\ failedAt[1] # "listdir") =>
        /\ Dumped(1) = listed[1] \ (todo[1] \cup {release_note[1]})
        /\ DOMAIN staging = listed[1] \ Dumped(1)
        /\ release_note[1] \in DOMAIN staging
        /\ todo[1] \subseteq DOMAIN staging

\* a run failed with one fragment compiled and another not yet reached
AbortedMidBatch ==
    pc[1] = "failed" /\ Dumped(1) # {} /\ todo[1] # {}

\* C4: with pairwise distinct heading names, the record's keys are the
\* trimmed heading names and each maps to <<convert(body)>>, body being the
\* lines between the heading and the next one; leading lines are dropped
DistinctSectionsParsed ==
    \A f \in Dumped(1) :
        LET L == SplitLines(log[1][f].text)
        IN  DistinctHeadings(L) =>
              /\ DOMAIN log[1][f].rec = HeadingNames(L)
              /\ \A i \in HeadingIdx(L) :
                     log[1][f].rec[HeadingName(L[i])] = <<Convert(BlockBody(L, i))>>

\* a dumped fragment with a dropped leading line, a heading whose name needs
\* trimming and a non-empty body
LeadingLineDropped ==
    \E f \in Dumped(1) :
        LET L == SplitLines(log[1][f].text)
        IN  /\ Len(L) = 3
            /\ ~IsHeading(L[1])
            /\ IsHeading(L[2]) /\ HeadingName(L[2]) # SubSeq(L[2], 3, Len(L[2]))
            /\ ~IsHeading(L[3])
            /\ log[1][f].rec = [k \in {HeadingName(L[2])} |-> <<Convert(L[3])>>]

\* C5: when the run returns, every listed fragment is gone from .changelog/
\* and has exactly one note record of its own in releasenotes/notes/
EveryFragmentCompiledOnce ==
    pc[1] = "done" =>
        /\ \A f \in listed[1] :
               /\ f \notin DOMAIN staging
               /\ f \in Dumped(1)
               /\ OutName(f) \in DOMAIN out
               /\ out[OutName(f)] = [rec |-> log[1][f].rec, complete |-> TRUE]
        /\ Cardinality(DOMAIN out) = Cardinality(listed[1])

\* C8: the record is written under the fragment's name with its extension
\* replaced by .yaml, and no two fragments of a run share an output file
OutputNameReplacesExtension ==
    \A f \in Dumped(1) :
        /\ log[1][f].file = BaseName(f) \o YamlExt
        /\ \A g \in Dumped(1) : g # f => log[1][g].file # log[1][f].file

\* C9: a fragment without any heading line yields an empty record, no
\* converter call, and is deleted once its record is dumped
NoHeadingEmptyRecord ==
    \A f \in Dumped(1) :
        HeadingIdx(SplitLines(log[1][f].text)) = {} =>
            /\ log[1][f].rec = EmptyDict
            /\ log[1][f].calls = 0
            /\ IF pc[1] = "remove" /\ release_note[1] = f
               THEN out[OutName(f)] = [rec |-> EmptyDict, complete |-> TRUE]
               ELSE f \notin DOMAIN staging

\* a fragment holding text but no heading was dumped and deleted
HeadinglessFragmentDeleted ==
    \E f \in Dumped(1) :
        /\ log[1][f].text # <<>>
        /\ HeadingIdx(SplitLines(log[1][f].text)) = {}
        /\ f \notin DOMAIN staging

----------------------------------------------------------------------------
(* The task `new` (lines 12-25) *)

HexDigits == {"0", "1", "2", "3", "4", "5", "6", "7", "8", "9",
              "a", "b", "c", "d", "e", "f"}

\* values uuid.uuid4().hex may take: 32 hex digits, version digit "4" at
\* index 12 and variant digit at index 16; two first halves, two second halves
UuidHigh == { Rep("0", 12) \o <<"4">> \o Rep("0", 3),
              Rep("1", 12) \o <<"4">> \o Rep("1", 3) }

UuidLow == { <<"8">> \o Rep("0", 15), <<"9">> \o Rep("1", 15) }

Uuids == {h \o l : h \in UuidHigh, l \in UuidLow}

\* titles: "fix", "add"
Titles == { <<"f", "i", "x">>, <<"a", "d", "d">> }

MdExt == <<".", "m", "d">>

\* a plausible slip: the slice starts one character late
SuffixOffByOne(u) == SubSeq(u, SuffixFrom + 2, HexLen)

\* uuid.uuid4().hex[16:]
Suffix(u) == SubSeq(u, SuffixFrom + 1, HexLen)

\* "{}-{}.md".format(title, uuid.uuid4().hex[16:]), inside .changelog/
NewName(title, u) == title \o <<"-">> \o Suffix(u) \o MdExt

\* what the editor may leave in the file: nothing, or "# A\n"
EditorTexts == { <<>>, <<"#", " ", "A", "\n">> }

\* one invocation of `new` that returns: the directory is made if absent,
\* the file is created or truncated by open(path, "w+"), then either the
\* manual-edit message is printed (EDITOR unset) or os.system runs the
\* editor, whose exit status is discarded; the reminder is printed last
NewFragment(title, u, editor, launched, edited) ==
    /\ Len(calls) < MaxNew
    /\ u \notin issued
    /\ launched => editor
    /\ (~launched) => edited = <<>>
    /\ issued' = issued \cup {u}
    /\ dirExists' = TRUE
    /\ staging' = Put(staging, NewName(title, u), edited)
    /\ calls' = Append(calls,
          [title |-> title, uuid |-> u, name |-> NewName(title, u),
           before |-> staging, editor |-> editor, launched |-> launched,
           printed |-> (IF editor THEN <<>> ELSE <<"edit manually">>)
                          \o <<"reminder">>,
           outcome |-> "ok"])
    /\ UNCHANGED doneVars

\* open(path, "w+") raises (directory not writable): no file is created,
\* nothing is printed and the task ends with the error
NewFragmentFail(title, u) ==
    /\ Len(calls) < MaxNew
    /\ u \notin issued
    /\ issued' = issued \cup {u}
    /\ calls' = Append(calls,
          [title |-> title, uuid |-> u, name |-> NewName(title, u),
           before |-> staging, editor |-> FALSE, launched |-> FALSE,
           printed |-> <<>>, outcome |-> "error"])
    /\ dirExists' = TRUE
    /\ UNCHANGED <<staging, doneVars>>

\* .changelog/ before the invocations: absent, empty, or holding fragments
\* of earlier invocations, titled "old"
OldFragments == { NewName(<<"o", "l", "d">>, u) : u \in Uuids }

InitNew ==
    /\ \E old \in SUBSET OldFragments :
          staging = [f \in old |-> <<"x", "\n">>]
    /\ dirExists \in (IF DOMAIN staging = {} THEN BOOLEAN ELSE {TRUE})
    /\ InitRuns({})
    /\ issued = {}
    /\ calls = <<>>

NextNew ==
    \E title \in Titles, u \in Uuids :
        \/ \E editor, launched \in BOOLEAN, edited \in EditorTexts :
               NewFragment(title, u, editor, launched, edited)
        \/ NewFragmentFail(title, u)

SpecNew == InitNew /\ [][NextNew]_vars

----------------------------------------------------------------------------
(* Statements about `new` (specification SpecNew) *)

\* .changelog/ right after the i-th invocation
After(i) == IF i = Len(calls) THEN staging ELSE calls[i + 1].before

\* the name is <title>-<16 hex digits>.md
WellFormedName(c) ==
    LET n == c.name
        t == Len(c.title)
    IN  /\ Len(n) = t + 1 + 16 + 3
        /\ SubSeq(n, 1, t) = c.title
        /\ n[t + 1] = "-"
        /\ \A i \in (t + 2)..(t + 17) : n[i] \in HexDigits
        /\ SubSeq(n, t + 18, t + 20) = MdExt

EditorFailureIsFatal ==
    \A i \in 1..Len(calls) :
        (calls[i].editor /\ ~calls[i].launched) => calls[i].outcome = "error"

----------------------------------------------------------------------------
(* Two `done` runs on one staging directory (specification SpecConc) *)

\* fragment texts of the concurrent runs: "# A\nx\n" and "x\n"
ConcTexts == { <<"#", " ", "A", "\n", "x", "\n">>, <<"x", "\n">> }

InitConc ==
    /\ \E files \in SUBSET Names : staging \in [files -> ConcTexts]
    /\ dirExists \in (IF DOMAIN staging = {} THEN BOOLEAN ELSE {TRUE})
    /\ InitRuns(Runs)
    /\ InitNoNew

\* the steps of the two runs interleave freely: nothing locks .changelog/
NextConc == \E r \in Runs : Step(r) \/ RemoveFail(r)

SpecConc == InitConc /\ [][NextConc]_vars

Other(r) == CHOOSE o \in Runs : o # r

\* C10: a run whose os.remove raised lost a race: the fragment is gone
\* because the other run, which also read and dumped it, removed it first;
\* the loser dumped it too and stops with the rest of its listing untouched
RaceAbortsSecondRemover ==
    \A r \in Runs :
        (pc[r] = "failed" /\ failedAt[r] = "remove") =>
            /\ release_note[r] \notin DOMAIN staging
            /\ release_note[r] \in Dumped(r) \cap Dumped(Other(r))
            /\ log[r][release_note[r]].text = log[Other(r)][release_note[r]].text
            /\ release_note[r] \in listed[r] \cap listed[Other(r)]
            /\ todo[r] \cap Dumped(r) = {}

\* both runs dumped the same fragment, one removed it, the other's removal
\* raised while fragments of its listing were still waiting in .changelog/
RaceLeavesFragmentsBehind ==
    \E r \in Runs :
        /\ pc[r] = "failed" /\ failedAt[r] = "remove"
        /\ release_note[r] \in Dumped(1) \cap Dumped(2)
        /\ todo[r] \cap DOMAIN staging # {}

====
